---- MODULE Spec2Model ----
(***************************************************************************)
(* Model of examples/python-api/keycloak_auth.py (KeycloakAuth, the        *)
(* get_current_user / require_role dependencies) and of the gated          *)
(* endpoints of examples/python-api/main.py.                               *)
(*                                                                         *)
(* The dependencies are plain `def` functions, so the framework runs them  *)
(* in worker threads: several verify_token calls run at once on the one    *)
(* module-level KeycloakAuth instance.  A step of a request is the code up *)
(* to and including its next access to the shared attribute _public_keys   *)
(* (or to the network); code that touches only locals is folded into the   *)
(* step before it.                                                         *)
(*                                                                         *)
(* Python values: a dict is a function (a record), a list is a sequence,   *)
(* None is the value None below.  The payload and signature segments of a  *)
(* bearer token are read by jwt.decode alone and the endpoint's role by    *)
(* check_role alone; the model draws each of these inputs in the step      *)
(* that first reads it.                                                    *)
(*                                                                         *)
(* Three deployments are explored (Init): one worker thread serving every  *)
(* kind of request, provider failure and token; NumReq worker threads      *)
(* serving well-formed, valid tokens against a provider that answers; and  *)
(* a client of the token endpoint calling the grant operations, which      *)
(* share no state with verification.                                       *)
(***************************************************************************)
EXTENDS Integers, Sequences, FiniteSets, TLC

\* ------------------------------------------------------------------ bounds
\* Worker threads of the concurrent deployment: requests in flight at once.
NumReq == 2
\* The clock values a verification can run at are 0..MaxTime.
MaxTime == 1
\* A key-set document with an unparseable entry carries it after BadAt good ones.
BadAt == 1

Times == 0..MaxTime

\* ----------------------------------------------------------- Python values
None == [x \in {"None"} |-> TRUE]
EmptyDict == [k \in {} |-> None]
\* header.get('kid') of a header without kid: None, which is no key of any dict.
NoKid == "<None>"

\* dict.get(k, default)
Get(d, k, default) == IF k \in DOMAIN d THEN d[k] ELSE default
\* d[k] = v
Put(d, k, v) == [x \in DOMAIN d \cup {k} |-> IF x = k THEN v ELSE d[x]]
\* `not v` for v a dict or None
Falsy(v) == v = None \/ DOMAIN v = {}
\* `x in lst` for a list
InList(x, lst) == \E j \in 1..Len(lst) : lst[j] = x

\* ------------------------------------------------------------ configuration
client_id == "3dgs-api-service"
client_secret == "<API_CLIENT_SECRET>"
base_url == "http://localhost:8080/realms/caretwin/"
token_url == "http://localhost:8080/realms/caretwin/protocol/openid-connect/token"

\* --------------------------------------------------------------- provider
Kids == {"k1", "k2", "k3"}
Modulus == [k1 |-> "n1", k2 |-> "n2", k3 |-> "n3"]
Jwk(k) == [kid |-> k, kty |-> "RSA", n |-> Modulus[k]]
\* An entry RSAAlgorithm.from_jwk cannot parse.
BadJwk == [kid |-> "k2", kty |-> "oct"]
\* The key sets the provider publishes over time: k1 is rotated out, k3 in.
ProviderSets == {<<Jwk("k1"), Jwk("k2")>>, <<Jwk("k2"), Jwk("k3")>>}
NotJson == [notjson |-> TRUE]
\* What a GET of certs_url can come back with while the provider publishes `keys`:
\* the key-set document, or one of the failures.
GoodResponse(keys) == [net |-> "ok", status |-> 200, body |-> [keys |-> keys]]
FaultyResponses(keys) ==
  { [net |-> "down", status |-> 0, body |-> NotJson],
    [net |-> "ok", status |-> 503, body |-> NotJson],
    [net |-> "ok", status |-> 200, body |-> NotJson],
    [net |-> "ok", status |-> 200, body |-> EmptyDict],
    [net |-> "ok", status |-> 200,
     body |-> [keys |-> Append(SubSeq(keys, 1, BadAt), BadJwk)]] }
\* The provider accepts the connection and never answers.
Silent == [net |-> "silent", status |-> 0, body |-> NotJson]
\* The dict a complete key-set document makes of the cache.
KeyMap(keys) ==
  [k \in {keys[j].kid : j \in 1..Len(keys)} |->
     [rsa_public_key |-> Modulus[k]]]

\* --------------------------------------------------------- token endpoint
\* The form each grant operation posts.
get_client_credentials_token ==
  [grant_type |-> "client_credentials", client_id |-> client_id,
   client_secret |-> client_secret]
exchange_authorization_code(code, redirect_uri) ==
  [grant_type |-> "authorization_code", client_id |-> client_id,
   client_secret |-> client_secret, code |-> code, redirect_uri |-> redirect_uri]
refresh_token(token) ==
  [grant_type |-> "refresh_token", client_id |-> client_id,
   client_secret |-> client_secret, refresh_token |-> token]
Codes == {"code-1", "code-2"}
RedirectUris == {"http://localhost:3000/callback"}
RefreshTokens == {"rt-1", "rt-2"}
\* What a POST to token_url can come back with.
TokenResponse ==
  [access_token |-> "at-1", refresh_token |-> "rt-2", token_type |-> "Bearer",
   expires_in |-> 300]
TokenEndpointResponses ==
  { [net |-> "down", status |-> 0, body |-> NotJson],
    [net |-> "ok", status |-> 200, body |-> TokenResponse],
    [net |-> "ok", status |-> 200, body |-> NotJson],
    [net |-> "ok", status |-> 304, body |-> NotJson],
    [net |-> "ok", status |-> 400, body |-> [error |-> "invalid_grant"]],
    [net |-> "ok", status |-> 401, body |-> [error |-> "unauthorized_client"]],
    [net |-> "ok", status |-> 503, body |-> NotJson] }

\* ----------------------------------------------------------------- tokens
\* The first segment of a bearer token, as jwt.get_unverified_header sees it.
Malformed == [malformed |-> TRUE]
TokenHeads ==
  { Malformed,
    [alg |-> "RS256"],
    [alg |-> "RS256", kid |-> "k1"],
    [alg |-> "RS256", kid |-> "k3"],
    [alg |-> "HS256", kid |-> "k1"] }
GoodPayload ==
  [sub |-> "user-42", aud |-> {client_id, "account"}, iss |-> base_url,
   exp |-> MaxTime + 1, realm_access |-> [roles |-> <<"user", "admin">>]]
Without(d, k) == [x \in DOMAIN d \ {k} |-> d[x]]
Payloads ==
  { GoodPayload,
    [GoodPayload EXCEPT !.aud = {"account"}],
    Without(GoodPayload, "aud"),
    [GoodPayload EXCEPT !.iss = "http://evil.example/realms/caretwin/"],
    Without(GoodPayload, "iss"),
    Without(GoodPayload, "exp"),
    [GoodPayload EXCEPT !.exp = 1],
    Put(GoodPayload, "nbf", 1),
    [GoodPayload EXCEPT !.realm_access = [roles |-> <<"user">>]],
    [GoodPayload EXCEPT !.realm_access = EmptyDict],
    Without(GoodPayload, "realm_access") }
\* The payload and signature segments; signer is the modulus of the key pair
\* that produced the signature ("kid" stands for the pair the header names).
Bodies ==
  { [payload |-> p, signer |-> "kid"] : p \in Payloads }
    \cup { [payload |-> GoodPayload, signer |-> "forged"] }
SignedWith(head, body) ==
  IF body.signer = "kid" /\ "kid" \in DOMAIN head THEN Modulus[head.kid]
  ELSE IF body.signer = "kid" THEN "n1" ELSE "nX"

\* Authorization headers of incoming requests.
Authorizations ==
  { None }
    \cup { [scheme |-> "Basic", credentials |-> Malformed] }
    \cup { [scheme |-> "Bearer", credentials |-> h] : h \in TokenHeads }

\* The roles main.py gates on; NoRole is Depends(get_current_user).
NoRole == "<none>"
Endpoints == {NoRole, "admin", "api_user"}

\* ------------------------------------------------------------ PyJWT, requests
\* The exceptions verify_token's `except jwt.InvalidTokenError` catches.
InvalidTokenErrors ==
  { "DecodeError", "InvalidAlgorithmError", "InvalidSignatureError",
    "ImmatureSignatureError", "ExpiredSignatureError", "MissingRequiredClaimError",
    "InvalidIssuerError", "InvalidAudienceError" }
\* A call's result: the value returned, or the exception it raised.
Returned(v) == [exc |-> "", value |-> v]
Raised(e) == [exc |-> e, value |-> None]

\* jwt.algorithms.RSAAlgorithm.from_jwk(key): the public key object of a JWK.
from_jwk(jwk) ==
  IF Get(jwk, "kty", "") = "RSA" /\ "n" \in DOMAIN jwk
  THEN Returned([rsa_public_key |-> jwk.n])
  ELSE Raised("InvalidKeyError")

\* requests.get(self.certs_url) is given no timeout=: requests then waits for
\* the answer without limit.
timeout == None
\* requests.get(certs_url); raise_for_status(); response.json()
FetchJwks(response) ==
  IF response.net # "ok" THEN Raised("ConnectionError")
  ELSE IF response.status >= 400 THEN Raised("HTTPError")
  ELSE IF response.body = NotJson THEN Raised("JSONDecodeError")
  ELSE Returned(response.body)

\* Mutant of raise_for_status: only a server error raises.
raise_for_status_5xx(response) == response.status >= 500 /\ response.status < 600
\* response.raise_for_status() raises HTTPError: a 4xx or 5xx status.
raise_for_status(response) == response.status >= 400 /\ response.status < 600
\* requests.post(token_url, data=data); raise_for_status(); return response.json()
PostToken(response) ==
  IF response.net # "ok" THEN Raised("ConnectionError")
  ELSE IF raise_for_status(response) THEN Raised("HTTPError")
  ELSE IF response.body = NotJson THEN Raised("JSONDecodeError")
  ELSE Returned(response.body)

\* jwt.get_unverified_header(token)
get_unverified_header(token) ==
  IF token = Malformed THEN Raised("DecodeError") ELSE Returned(token)

Algorithms == {"RS256"}
VerifyAlg(header) == Get(header, "alg", "") \in Algorithms
VerifySignature(header, body, public_key) ==
  public_key.rsa_public_key = SignedWith(header, body)
\* The registered claims jwt.decode validates with audience= and issuer= given:
\* nbf and exp only when the payload carries them, iss and aud always.
ValidateNbf(payload, now) == "nbf" \in DOMAIN payload => ~(payload.nbf > now)
ValidateExp(payload, now) == "exp" \in DOMAIN payload => ~(payload.exp <= now)
ValidateIss(payload, issuer) ==
  IF "iss" \notin DOMAIN payload THEN "MissingRequiredClaimError"
  ELSE IF payload.iss # issuer THEN "InvalidIssuerError" ELSE ""
\* Mutant of ValidateAud: the aud claim must be the audience alone.
ValidateAudExact(payload, audience) ==
  IF "aud" \notin DOMAIN payload THEN "MissingRequiredClaimError"
  ELSE IF payload.aud # {audience} THEN "InvalidAudienceError" ELSE ""
ValidateAud(payload, audience) ==
  IF "aud" \notin DOMAIN payload THEN "MissingRequiredClaimError"
  ELSE IF audience \notin payload.aud THEN "InvalidAudienceError" ELSE ""
\* jwt.decode(token, public_key, algorithms=['RS256'], audience=, issuer=) at time now
jwt_decode(header, body, public_key, audience, issuer, now) ==
  IF ~VerifyAlg(header) THEN Raised("InvalidAlgorithmError")
  ELSE IF ~VerifySignature(header, body, public_key) THEN Raised("InvalidSignatureError")
  ELSE IF ~ValidateNbf(body.payload, now) THEN Raised("ImmatureSignatureError")
  ELSE IF ~ValidateExp(body.payload, now) THEN Raised("ExpiredSignatureError")
  ELSE IF ValidateIss(body.payload, issuer) # "" THEN Raised(ValidateIss(body.payload, issuer))
  ELSE IF ValidateAud(body.payload, audience) # ""
       THEN Raised(ValidateAud(body.payload, audience))
  ELSE Returned(body.payload)

\* try: ... except jwt.InvalidTokenError: return None
ExceptInvalidTokenError(result) ==
  IF result.exc \in InvalidTokenErrors THEN Returned(None) ELSE result

\* -------------------------------------------------------- FastAPI dependencies
\* What a dependency hands on: a value, an HTTPException, or another exception.
HTTPException(status_code, detail, headers) ==
  [kind |-> "HTTPException", status_code |-> status_code, detail |-> detail,
   headers |-> headers]
Return(v) == [kind |-> "return", value |-> v]
Detail(text) == [text |-> text]
Error(e) == [kind |-> "error", exc |-> e]

\* FastAPI answers a missing or non-bearer Authorization header itself; releases
\* differ in the status they use for it.
HTTPBearerStatus == {401, 403}
\* Mutant of HTTPBearer: the scheme is not looked at.
HTTPBearerAnyScheme(authorization, status) ==
  IF authorization = None
  THEN HTTPException(status, Detail("Not authenticated"), EmptyDict)
  ELSE Return(authorization.credentials)
\* security = HTTPBearer()
HTTPBearer(authorization, status) ==
  IF authorization = None
  THEN HTTPException(status, Detail("Not authenticated"), EmptyDict)
  ELSE IF authorization.scheme # "Bearer"
  THEN HTTPException(status, Detail("Not authenticated"), EmptyDict)
  ELSE Return(authorization.credentials)

\* get_current_user after keycloak_auth.verify_token(token) has come back
get_current_user(verified) ==
  IF verified.exc # "" THEN Error(verified.exc)
  ELSE IF Falsy(verified.value)
  THEN HTTPException(401, Detail("Invalid or expired token"),
                          [WWW_Authenticate |-> "Bearer"])
  ELSE Return(verified.value)

\* Mutant of check_role: any role at all passes.
check_role_any(required_role, current_user) ==
  LET user_roles == Get(Get(current_user, "realm_access", EmptyDict), "roles", <<>>)
  IN  IF Len(user_roles) = 0
      THEN HTTPException(403, [text |-> "Required role '{required_role}' not found",
                               required_role |-> required_role], EmptyDict)
      ELSE Return(current_user)
\* require_role(required_role).check_role(current_user)
check_role(required_role, current_user) ==
  LET user_roles == Get(Get(current_user, "realm_access", EmptyDict), "roles", <<>>)
  IN  IF ~InList(required_role, user_roles)
      THEN HTTPException(403, [text |-> "Required role '{required_role}' not found",
                               required_role |-> required_role], EmptyDict)
      ELSE Return(current_user)

\* Depends(get_current_user) or Depends(require_role(required_role))
Dependency(required_role, verified) ==
  LET user == get_current_user(verified)
  IN  IF required_role = NoRole \/ user.kind # "return" THEN user
      ELSE check_role(required_role, user.value)

\* The response of a gated endpoint: the handler runs only when its dependency
\* returned; an HTTPException becomes its status, anything else a 500.
EndpointResponse(dep) ==
  IF dep.kind = "return"
  THEN [status |-> 200, detail |-> Detail(""), headers |-> EmptyDict, current_user |-> dep.value]
  ELSE IF dep.kind = "HTTPException"
  THEN [status |-> dep.status_code, detail |-> dep.detail, headers |-> dep.headers,
        current_user |-> None]
  ELSE [status |-> 500, detail |-> Detail("Internal Server Error"), headers |-> EmptyDict,
        current_user |-> None]

\* -------------------------------------------------------------------- state
VARIABLES
  public_keys,  \* keycloak_auth._public_keys: None, or the dict kid -> public key
  provider,     \* the key set the provider publishes now
  req,          \* per worker thread: where its request is in the code, and its locals
  env,          \* the deployment: worker threads, and what clients and provider send
  obs,          \* per worker thread: what its request has done so far (history)
  stable,       \* the cache as it was when no refresh was last part-way through
                \* its writes (history)
  grant,        \* the grant operation in progress: its form, the POSTs sent so
                \* far, the response and what the call came back with
  batch         \* the refreshes that overlap in time, from the first to begin to
                \* the last to end (history)

vars == <<public_keys, provider, req, env, obs, stable, grant, batch>>

Workers == DOMAIN req

IdleReq ==
  [pc |-> "idle", authorization |-> None, token |-> None, ret |-> "",
   jwks |-> None, i |-> 0, out |-> None]
\* fetches: GETs of certs_url; writes: assignments to _public_keys or its items;
\* decodes: jwt.decode calls; hit (miss): verify_token began on a populated cache
\* holding its token's kid (on a cache without its token's kid), and no other
\* request has written the cache since; cold: verify_token began on an empty
\* cache; fetched: the keys of the last key-set document its refresh got;
\* rotated: the provider has changed its key set since the request came in.
IdleObs ==
  [fetches |-> 0, writes |-> 0, decodes |-> 0, hit |-> FALSE, miss |-> FALSE,
   cold |-> FALSE, fetched |-> <<>>, rotated |-> FALSE]
\* What jwt.decode read: the token's other segments, the clock, the key looked up.
NotDecoded == [body |-> None, now |-> 0, public_key |-> None]

GoodBody == [payload |-> GoodPayload, signer |-> "kid"]
Serial ==
  [workers |-> 1, authorizations |-> Authorizations, bodies |-> Bodies,
   times |-> Times, endpoints |-> Endpoints, faults |-> TRUE, grants |-> FALSE]
Concurrent ==
  [workers |-> NumReq,
   authorizations |-> { [scheme |-> "Bearer", credentials |-> [alg |-> "RS256", kid |-> k]] :
                          k \in {"k1", "k3"} },
   bodies |-> {GoodBody}, times |-> {0}, endpoints |-> {NoRole}, faults |-> FALSE,
   grants |-> FALSE]
\* The module run as a script: a KeycloakAuth used as a client of the token endpoint.
Client ==
  [workers |-> 0, authorizations |-> {}, bodies |-> {}, times |-> {}, endpoints |-> {},
   faults |-> FALSE, grants |-> TRUE]
Deployments == {Serial, Concurrent, Client}

IdleGrant ==
  [pc |-> "idle", op |-> "", data |-> None, sent |-> <<>>, response |-> None,
   result |-> Returned(None)]

Responses(keys) ==
  {GoodResponse(keys)}
    \cup (IF env.faults THEN FaultyResponses(keys) \cup {Silent} ELSE {})

\* Worker thread r exists in this deployment and is at pc.
At(r, pc) == r \in Workers /\ req[r].pc = pc
InFlight(q) == req[q].pc \notin {"idle", "done"}
\* q's refresh has cleared the cache and has keys left to store.
MidRefresh(q) == req[q].pc = "L174"
\* q is in _load_public_keys.
InRefresh(q) == req[q].pc \in {"L167", "waiting", "L171", "L174"}
\* state: "clean" while every refresh of the batch has succeeded so far and the
\* provider has kept its key set since the batch began, "dirty" otherwise;
\* mixed: a refresh of the batch cleared the cache while another was storing keys.
NoBatch == [state |-> "none", mixed |-> FALSE]
key_id(q) == Get(req[q].token, "kid", NoKid)

TypeOK ==
  /\ provider \in ProviderSets
  /\ env \in Deployments
  /\ \A q \in Workers :
       /\ req[q].pc \in {"idle", "L137", "L141", "L147", "L151", "L167", "waiting", "L171",
                        "L174", "done"}
       /\ obs[q].fetches \in 0..2

Init ==
  /\ public_keys = None
  /\ provider \in ProviderSets
  /\ env \in Deployments
  /\ req = [q \in 1..env.workers |-> IdleReq]
  /\ obs = [q \in 1..env.workers |-> IdleObs]
  /\ stable = None
  /\ grant = IdleGrant
  /\ batch = NoBatch

\* What a write of the cache by request r does to the histories: r's count, and
\* the other requests in flight have been written under.
ObsWrite(r) ==
  [q \in Workers |->
     IF q = r THEN [obs[q] EXCEPT !.writes = @ + 1]
     ELSE IF InFlight(q) THEN [obs[q] EXCEPT !.hit = FALSE, !.miss = FALSE]
     ELSE obs[q]]

\* verify_token is over (verified: what it returned or raised; decoded: what
\* jwt.decode read, when it ran); the endpoint's dependency and handler follow.
Finish(r, verified, decoded) ==
  \E required_role \in env.endpoints :
    req' = [req EXCEPT ![r] =
              [@ EXCEPT !.pc = "done",
                        !.out = [called |-> TRUE, verified |-> verified, decoded |-> decoded,
                                 required_role |-> required_role,
                                 response |->
                                   EndpointResponse(Dependency(required_role, verified))]]]

\* self._load_public_keys() is called; the caller goes on at `ret` when it returns.
CallLoad(r, ret) == req' = [req EXCEPT ![r] = [@ EXCEPT !.pc = "L167", !.ret = ret]]
\* Mutant of ReturnFromLoad: after the refresh the caller goes straight on to the
\* key lookup, without the second membership test.
ReturnFromLoadNoRetest(r) ==
  [req[r] EXCEPT !.pc = IF req[r].ret = "L147" THEN "L151" ELSE req[r].ret,
                 !.ret = "", !.jwks = None, !.i = 0]
ReturnFromLoad(r) ==
  [req[r] EXCEPT !.pc = req[r].ret, !.ret = "", !.jwks = None, !.i = 0]

\* The deployment stays as it is, and the histories follow the step.
Track ==
  /\ env' = env
  /\ grant' = grant
  /\ stable' = IF \E q \in Workers : req'[q].pc = "L174" THEN stable ELSE public_keys'
  /\ batch' =
       IF /\ \A q \in Workers : ~InRefresh(q)
          /\ \E q \in Workers : req'[q].pc = "L167"
       THEN [state |-> "clean", mixed |-> FALSE]
       ELSE [state |-> IF batch.state = "none" THEN "none"
                       ELSE IF \/ provider' # provider
                               \/ \E q \in Workers : InRefresh(q) /\ req'[q].pc = "done"
                       THEN "dirty"
                       ELSE batch.state,
             mixed |-> \/ batch.mixed
                       \/ \E q \in Workers :
                            /\ req[q].pc = "L171" /\ req'[q].pc # "L171"
                            /\ \E p \in Workers \ {q} : MidRefresh(p)]

\* Mutant of NotInCache: the test is inverted.
NotInCacheInverted(kid, cache) == kid \in DOMAIN cache
\* `key_id not in self._public_keys`
NotInCache(kid, cache) == kid \notin DOMAIN cache

\* A request comes in; HTTPBearer answers it or hands the credentials to
\* get_current_user, which calls verify_token.
Arrive(r) ==
  /\ At(r, "idle")
  /\ \E authorization \in env.authorizations, status \in HTTPBearerStatus :
       LET credentials == HTTPBearer(authorization, status)
       IN  IF credentials.kind = "return"
           THEN /\ req' = [req EXCEPT ![r] = [@ EXCEPT !.pc = "L137",
                                                       !.authorization = authorization,
                                                       !.token = credentials.value]]
                /\ obs' = [obs EXCEPT
                             ![r].hit = /\ ~Falsy(public_keys)
                                        /\ Get(credentials.value, "kid", NoKid)
                                             \in DOMAIN public_keys,
                             ![r].miss = /\ "kid" \in DOMAIN credentials.value
                                         /\ \/ public_keys = None
                                            \/ credentials.value.kid \notin DOMAIN public_keys,
                             ![r].cold = Falsy(public_keys)]
           ELSE /\ req' = [req EXCEPT ![r] =
                             [@ EXCEPT !.pc = "done",
                                       !.authorization = authorization,
                                       !.out = [called |-> FALSE, verified |-> Returned(None),
                                                decoded |-> NotDecoded,
                                                required_role |-> NoRole,
                                                response |-> EndpointResponse(credentials)]]]
                /\ obs' = obs
  /\ UNCHANGED <<public_keys, provider>>
  /\ Track

\* verify_token line 137: if not self._public_keys: self._load_public_keys()
VerifyL137(r) ==
  /\ At(r, "L137")
  /\ IF Falsy(public_keys)
     THEN CallLoad(r, "L141")
     ELSE req' = [req EXCEPT ![r].pc = "L141"]
  /\ UNCHANGED <<public_keys, provider, obs>>
  /\ Track

\* _load_public_keys lines 167-170: the GET, raise_for_status, response.json().
\* With no timeout a request to a provider that never answers stays in the GET.
LoadFetch(r) ==
  /\ At(r, "L167")
  /\ \E response \in Responses(provider) :
       LET jwks == FetchJwks(response)
       IN  IF response = Silent /\ timeout = None
           THEN /\ req' = [req EXCEPT ![r].pc = "waiting"]
                /\ obs' = [obs EXCEPT ![r].fetches = @ + 1]
           ELSE IF jwks.exc # ""
           THEN /\ Finish(r, ExceptInvalidTokenError(jwks), NotDecoded)
                /\ obs' = [obs EXCEPT ![r].fetches = @ + 1]
           ELSE /\ req' = [req EXCEPT ![r] = [@ EXCEPT !.pc = "L171", !.jwks = jwks.value]]
                /\ obs' = [obs EXCEPT ![r].fetches = @ + 1,
                                      ![r].fetched = Get(jwks.value, "keys", <<>>)]
  /\ UNCHANGED <<public_keys, provider>>
  /\ Track

\* Mutant of LoadClear: the cache is kept and the fetched keys are merged into it.
LoadClearMerge(r) ==
  /\ At(r, "L171")
  /\ public_keys' = IF public_keys = None THEN EmptyDict ELSE public_keys
  /\ obs' = ObsWrite(r)
  /\ IF "keys" \notin DOMAIN req[r].jwks
     THEN Finish(r, ExceptInvalidTokenError(Raised("KeyError")), NotDecoded)
     ELSE IF Len(req[r].jwks.keys) = 0
     THEN req' = [req EXCEPT ![r] = ReturnFromLoad(r)]
     ELSE req' = [req EXCEPT ![r] = [@ EXCEPT !.pc = "L174", !.i = 1]]
  /\ UNCHANGED provider
  /\ Track
\* _load_public_keys lines 171-173: self._public_keys = {}, then jwks['keys']
LoadClear(r) ==
  /\ At(r, "L171")
  /\ public_keys' = EmptyDict
  /\ obs' = ObsWrite(r)
  /\ IF "keys" \notin DOMAIN req[r].jwks
     THEN Finish(r, ExceptInvalidTokenError(Raised("KeyError")), NotDecoded)
     ELSE IF Len(req[r].jwks.keys) = 0
     THEN req' = [req EXCEPT ![r] = ReturnFromLoad(r)]
     ELSE req' = [req EXCEPT ![r] = [@ EXCEPT !.pc = "L174", !.i = 1]]
  /\ UNCHANGED provider
  /\ Track

\* _load_public_keys line 174, once per key of the document:
\* self._public_keys[key['kid']] = RSAAlgorithm.from_jwk(key)
LoadStore(r) ==
  /\ At(r, "L174")
  /\ LET key == req[r].jwks.keys[req[r].i]
         public_key == from_jwk(key)
     IN  IF public_key.exc # ""
         THEN /\ Finish(r, ExceptInvalidTokenError(public_key), NotDecoded)
              /\ UNCHANGED <<public_keys, obs>>
         ELSE IF "kid" \notin DOMAIN key
         THEN /\ Finish(r, ExceptInvalidTokenError(Raised("KeyError")), NotDecoded)
              /\ UNCHANGED <<public_keys, obs>>
         ELSE /\ public_keys' = Put(public_keys, key.kid, public_key.value)
              /\ obs' = ObsWrite(r)
              /\ req' = [req EXCEPT ![r] =
                           IF req[r].i = Len(req[r].jwks.keys) THEN ReturnFromLoad(r)
                           ELSE [@ EXCEPT !.i = @ + 1]]
  /\ UNCHANGED provider
  /\ Track

\* verify_token lines 141-146: the header, its kid, `if key_id not in self._public_keys`
VerifyL141(r) ==
  /\ At(r, "L141")
  /\ LET header == get_unverified_header(req[r].token)
     IN  IF header.exc # ""
         THEN Finish(r, ExceptInvalidTokenError(header), NotDecoded)
         ELSE IF NotInCache(Get(header.value, "kid", NoKid), public_keys)
         THEN CallLoad(r, "L147")
         ELSE req' = [req EXCEPT ![r].pc = "L151"]
  /\ UNCHANGED <<public_keys, provider, obs>>
  /\ Track

\* verify_token lines 147-148, after the refresh: still unknown -> return None
VerifyL147(r) ==
  /\ At(r, "L147")
  /\ IF NotInCache(key_id(r), public_keys)
     THEN Finish(r, Returned(None), NotDecoded)
     ELSE req' = [req EXCEPT ![r].pc = "L151"]
  /\ UNCHANGED <<public_keys, provider, obs>>
  /\ Track

\* verify_token lines 151-163: public_key = self._public_keys[key_id]; jwt.decode
VerifyL151(r) ==
  /\ At(r, "L151")
  /\ IF key_id(r) \notin DOMAIN public_keys
     THEN Finish(r, ExceptInvalidTokenError(Raised("KeyError")), NotDecoded) /\ obs' = obs
     ELSE \E body \in env.bodies, now \in env.times :
            /\ Finish(r, ExceptInvalidTokenError(
                           jwt_decode(req[r].token, body, public_keys[key_id(r)],
                                      client_id, base_url, now)),
                      [body |-> body, now |-> now, public_key |-> public_keys[key_id(r)]])
            /\ obs' = [obs EXCEPT ![r].decodes = @ + 1]
  /\ UNCHANGED <<public_keys, provider>>
  /\ Track

\* The response has gone out; the worker takes the next request.
Respond(r) ==
  /\ At(r, "done")
  /\ req' = [req EXCEPT ![r] = IdleReq]
  /\ obs' = [obs EXCEPT ![r] = IdleObs]
  /\ UNCHANGED <<public_keys, provider>>
  /\ Track

\* The provider rotates its signing keys.
Rotate ==
  /\ provider' \in ProviderSets \ {provider}
  /\ obs' = [q \in Workers |->
               IF req[q].pc # "idle" THEN [obs[q] EXCEPT !.rotated = TRUE] ELSE obs[q]]
  /\ UNCHANGED <<public_keys, req>>
  /\ Track

\* A grant operation is called: it builds its form (lines 52-56, 74-80, 97-102).
CallGrant(op, data) ==
  /\ env.grants
  /\ grant.pc = "idle"
  /\ grant' = [IdleGrant EXCEPT !.pc = "post", !.op = op, !.data = data]
  /\ UNCHANGED <<public_keys, provider, req, env, obs, stable, batch>>
ClientCredentials ==
  CallGrant("get_client_credentials_token", get_client_credentials_token)
ExchangeCode ==
  \E code \in Codes, redirect_uri \in RedirectUris :
    CallGrant("exchange_authorization_code", exchange_authorization_code(code, redirect_uri))
RefreshGrant ==
  \E token \in RefreshTokens : CallGrant("refresh_token", refresh_token(token))

\* The rest of each grant operation (lines 58-61, 82-85, 104-107): the POST of the
\* form to token_url, raise_for_status, return response.json()
GrantPost ==
  /\ grant.pc = "post"
  /\ \E response \in TokenEndpointResponses :
       grant' = [grant EXCEPT !.pc = "done",
                              !.sent = Append(@, [url |-> token_url, data |-> grant.data]),
                              !.response = response,
                              !.result = PostToken(response)]
  /\ UNCHANGED <<public_keys, provider, req, env, obs, stable, batch>>

\* The caller has the result; the next grant operation can be called.
GrantReturn ==
  /\ grant.pc = "done"
  /\ grant' = IdleGrant
  /\ UNCHANGED <<public_keys, provider, req, env, obs, stable, batch>>

Next ==
  \/ \E r \in 1..NumReq :
       \/ Arrive(r)
       \/ VerifyL137(r)
       \/ LoadFetch(r)
       \/ LoadClear(r)
       \/ LoadStore(r)
       \/ VerifyL141(r)
       \/ VerifyL147(r)
       \/ VerifyL151(r)
       \/ Respond(r)
  \/ Rotate
  \/ ClientCredentials
  \/ ExchangeCode
  \/ RefreshGrant
  \/ GrantPost
  \/ GrantReturn

Spec == Init /\ [][Next]_vars

\* The steps of worker thread r inside verify_token.
VerifyStep(r) ==
  \/ VerifyL137(r)
  \/ LoadFetch(r)
  \/ LoadClear(r)
  \/ LoadStore(r)
  \/ VerifyL141(r)
  \/ VerifyL147(r)
  \/ VerifyL151(r)
\* The interpreter keeps switching between its runnable threads: a worker
\* thread that can take its next step takes it.
LiveSpec == Spec /\ \A r \in 1..NumReq : WF_vars(VerifyStep(r))

\* ------------------------------------------------------------------- claims
Done(q) == q \in Workers /\ req[q].pc = "done"
Bearer(q) == req[q].authorization # None /\ req[q].authorization.scheme = "Bearer"
\* verify_token returned a claim set.
Valid(q) ==
  /\ Done(q)
  /\ req[q].out.called
  /\ req[q].out.verified.exc = ""
  /\ req[q].out.verified.value # None
\* jwt.decode ran on q's token.
Decoded(q) == Done(q) /\ req[q].out.decoded # NotDecoded
\* The mappings are the same to a reader: None and the empty dict both hold no key.
SameMapping(a, b) == (Falsy(a) /\ Falsy(b)) \/ a = b
\* q's token is an RS256 token whose signature verifies under the key looked up.
SignatureVerifies(q) ==
  /\ "alg" \in DOMAIN req[q].token
  /\ req[q].token.alg = "RS256"
  /\ req[q].out.decoded.public_key.rsa_public_key
       = SignedWith(req[q].token, req[q].out.decoded.body)
AudienceOk(p) == "aud" \in DOMAIN p /\ client_id \in p.aud
IssuerOk(p) == "iss" \in DOMAIN p /\ p.iss = base_url
Unauthorized401 ==
  [status |-> 401, detail |-> Detail("Invalid or expired token"),
   headers |-> [WWW_Authenticate |-> "Bearer"], current_user |-> None]

\* C1: verify_token returns a claim set only if the signature verifies under the
\* cached key of the token's kid, the audience contains client_id, the issuer
\* equals base_url, and the token carries an expiry strictly in the future.
C1_ValidOnlyIfAllFourHold ==
  \A q \in Workers :
    Valid(q) =>
      LET p == req[q].out.decoded.body.payload
      IN  /\ SignatureVerifies(q)
          /\ AudienceOk(p)
          /\ IssuerOk(p)
          /\ "exp" \in DOMAIN p
          /\ p.exp > req[q].out.decoded.now

\* C2: every bearer request whose verification does not end in Valid, whatever
\* the reason, gets the same response: 401, 'Invalid or expired token',
\* WWW-Authenticate: Bearer.
C2_EveryFailureIsTheSame401 ==
  \A q \in Workers :
    (Done(q) /\ Bearer(q) /\ ~Valid(q)) => req[q].out.response = Unauthorized401

\* C3: a verify_token call that began with its token's kid not in the cache has
\* made exactly one fetch of the certificate endpoint when it returns its outcome.
C3_ExactlyOneFetchOnMiss ==
  \A q \in Workers :
    (Done(q) /\ obs[q].miss /\ req[q].out.verified.exc = "") => obs[q].fetches = 1

\* C4: a refresh that fails (network error, non-2xx, malformed key-set document)
\* leaves the cache mapping exactly as it was before the refresh.
C4_FailedRefreshKeepsCache ==
  [][\A r \in Workers :
       ( /\ req[r].pc \in {"L167", "L171", "L174"}
         /\ req'[r].pc = "done"
         /\ \A q \in Workers \ {r} : ~MidRefresh(q) )
       => SameMapping(public_keys', stable)]_vars

\* C5: a request about to read the cache while another request's refresh is in
\* progress finds the complete mapping from before the refresh or the complete
\* mapping of the new fetch, never an empty or partly filled one.
C5_ReadersSeeWholeMappings ==
  \A r \in Workers : \A q \in Workers \ {r} :
    (MidRefresh(r) /\ req[q].pc \in {"L137", "L141", "L147", "L151"})
      => \/ SameMapping(public_keys, stable)
         \/ public_keys = KeyMap(req[r].jwks.keys)

\* C6: a request without an Authorization header, or with a scheme other than
\* Bearer, is rejected before verify_token is called: no fetch, no signature
\* check, no write of the key cache.
C6_NoBearerNoVerification ==
  \A q \in Workers :
    (Done(q) /\ ~Bearer(q)) =>
      /\ ~req[q].out.called
      /\ obs[q].fetches = 0 /\ obs[q].decodes = 0 /\ obs[q].writes = 0
      /\ req[q].out.response.status \in {401, 403}
      /\ req[q].out.response.current_user = None
W6_RejectedWithoutBearer ==
  \E q \in Workers :
    /\ Done(q) /\ ~Bearer(q)
    /\ req[q].authorization # None
    /\ ~Falsy(public_keys)

\* C7: on a role-gated endpoint an authenticated claim set c is rejected with 403
\* exactly when the required role is not in c's realm_access.roles (also when
\* realm_access or roles is absent); otherwise the handler gets c unchanged.
HasRole(c, role) ==
  /\ "realm_access" \in DOMAIN c
  /\ "roles" \in DOMAIN c.realm_access
  /\ \E j \in DOMAIN c.realm_access.roles : c.realm_access.roles[j] = role
C7_RoleGate ==
  \A q \in Workers :
    (Valid(q) /\ req[q].out.required_role # NoRole) =>
      LET c == req[q].out.verified.value
      IN  IF HasRole(c, req[q].out.required_role)
          THEN /\ req[q].out.response.status = 200
               /\ req[q].out.response.current_user = c
          ELSE /\ req[q].out.response.status = 403
               /\ req[q].out.response.current_user = None
W7_ForbiddenWithoutRole ==
  \E q \in Workers :
    /\ Valid(q)
    /\ req[q].out.required_role = "api_user"
    /\ HasRole(req[q].out.verified.value, "admin")
    /\ req[q].out.response.status = 403

\* C8: a verify_token call that began on a populated cache holding its token's
\* kid, with no write of the cache by another request since, makes no fetch and
\* no write of the cache.
C8_CacheHitNoFetch ==
  \A q \in Workers : obs[q].hit => (obs[q].fetches = 0 /\ obs[q].writes = 0)
W8_ValidOnCacheHit ==
  \E q \in Workers : Valid(q) /\ obs[q].hit /\ obs[q].decodes = 1

\* C9: when a refresh completes, the cache mapping holds exactly the keys of the
\* key set this refresh fetched.
C9_RefreshInstallsFetchedSet ==
  [][\A r \in Workers :
       (req[r].pc \in {"L171", "L174"} /\ req'[r].pc \in {"L141", "L147"})
       => public_keys' = KeyMap(req[r].jwks.keys)]_vars

RefreshFailed(q) == Done(q) /\ req[q].ret # ""
\* jwt.decode read a token that passes every check it makes.
OtherwiseValid(q) ==
  LET p == req[q].out.decoded.body.payload
  IN  /\ SignatureVerifies(q)
      /\ AudienceOk(p)
      /\ IssuerOk(p)
      /\ ("exp" \in DOMAIN p => p.exp > req[q].out.decoded.now)
      /\ ("nbf" \in DOMAIN p => p.nbf <= req[q].out.decoded.now)

\* C11: a verify_token call that began with its token's kid not in the cache, not
\* written under by another request, and whose refresh succeeded: if the refreshed
\* key set holds the kid the token is decoded, and is Valid when it passes the
\* checks; if not, the call returns None (it does not raise) without decoding.
\* From a populated cache that is one refresh.
C11_MissRefreshesAndRetries ==
  \A q \in Workers :
    (Done(q) /\ req[q].out.called /\ obs[q].miss /\ ~RefreshFailed(q)) =>
      /\ obs[q].fetches >= 1
      /\ ~obs[q].cold => obs[q].fetches = 1
      /\ IF req[q].token.kid \in DOMAIN KeyMap(obs[q].fetched)
         THEN /\ Decoded(q)
              /\ OtherwiseValid(q) =>
                   (Valid(q) /\ req[q].out.verified.value = req[q].out.decoded.body.payload)
         ELSE /\ ~Decoded(q)
              /\ req[q].out.verified = Returned(None)
\* The spec's scenario: the cache holds {k1, k2} from an earlier call, and a
\* token with kid k3 has caused one more refresh and come back Invalid.
W11_UnknownKidAfterSecondRefresh ==
  \E q \in Workers :
    /\ Done(q) /\ obs[q].miss /\ ~obs[q].cold /\ ~RefreshFailed(q)
    /\ \A p \in Workers \ {q} : ~InFlight(p)
    /\ req[q].token.kid = "k3"
    /\ obs[q].fetches = 1
    /\ req[q].out.verified = Returned(None)
    /\ public_keys = KeyMap(<<Jwk("k1"), Jwk("k2")>>)

\* A grant operation has come back, after one POST of its form to token_url.
GrantDone == grant.pc = "done"
OnePost ==
  /\ Len(grant.sent) = 1
  /\ grant.sent[1] = [url |-> token_url, data |-> grant.data]
Answered(lo, hi) ==
  /\ grant.response.net = "ok"
  /\ grant.response.status >= lo /\ grant.response.status < hi

\* C12 as stated: each grant operation makes exactly one POST to the token
\* endpoint; on a 2xx response it returns the response body; on any other
\* response it raises, and returns no token response.
C12_OnePostBodyOrError ==
  GrantDone =>
    /\ OnePost
    /\ Answered(200, 300) => grant.result = Returned(grant.response.body)
    /\ (grant.response.net = "ok" /\ ~Answered(200, 300)) =>
         (grant.result.exc # "" /\ grant.result.value = None)
\* C12 as amended: exactly one POST; a 2xx response whose body is JSON is
\* returned as parsed; a 4xx or 5xx response raises HTTPError; whenever the call
\* raises it returns no token response.
C12_OnePostJsonOrError ==
  GrantDone =>
    /\ OnePost
    /\ (Answered(200, 300) /\ grant.response.body # NotJson) =>
         grant.result = Returned(grant.response.body)
    /\ Answered(400, 600) => grant.result = Raised("HTTPError")
    /\ grant.result.exc # "" => grant.result.value = None
W12_RejectedRefreshGrant ==
  /\ GrantDone
  /\ grant.op = "refresh_token"
  /\ Answered(400, 500)
  /\ grant.response.body # NotJson
  /\ grant.result = Raised("HTTPError")

\* C13: verify_token of a malformed token, or of a token whose header has no
\* kid, returns None without any fetch of the certificate endpoint, whatever the
\* cache holds.
C13_NoKidNoFetch ==
  \A q \in Workers :
    (Done(q) /\ req[q].out.called /\ "kid" \notin DOMAIN req[q].token) =>
      /\ obs[q].fetches = 0
      /\ req[q].out.verified = Returned(None)

\* The terminal states of a request.
Authorized(q) ==
  req[q].out.response.status = 200 /\ req[q].out.response.current_user # None
Rejected(q, status) ==
  req[q].out.response.status = status /\ req[q].out.response.current_user = None

\* C14: every request ends Authorized, Rejected(401) or Rejected(403); the
\* handler runs (Authorized) only after verify_token returned Valid and, on a
\* role-gated endpoint, the role check passed; a request whose token is not
\* Valid is rejected 401, never 403.
C14_RequestStateMachine ==
  \A q \in Workers :
    Done(q) =>
      /\ Authorized(q) \/ Rejected(q, 401) \/ Rejected(q, 403)
      /\ Authorized(q) =>
           /\ Valid(q)
           /\ req[q].out.required_role # NoRole =>
                HasRole(req[q].out.verified.value, req[q].out.required_role)
      /\ (req[q].out.called /\ ~Valid(q)) => Rejected(q, 401)
      /\ (req[q].out.called /\ Rejected(q, 403)) =>
           (Valid(q) /\ req[q].out.required_role # NoRole)

\* C15: when the refreshes that overlapped in time have all completed, each of
\* them having succeeded and the provider having kept its key set meanwhile, the
\* cache mapping is exactly the provider's key set.
C15_RefreshesConverge ==
  (batch.state = "clean" /\ \A q \in Workers : ~InRefresh(q))
    => public_keys = KeyMap(provider)
W15_InterleavedRefreshesDone ==
  /\ batch.state = "clean" /\ batch.mixed
  /\ \A q \in Workers : ~InRefresh(q)
  /\ \A q \in Workers : obs[q].writes = 1 + Len(provider)

\* C17: with the provider keeping its key set during the call and every fetch
\* succeeding, verify_token of an RS256 token whose kid is in the provider's key
\* set and which passes every check of jwt.decode returns Valid: it neither
\* returns None nor raises, whatever other requests do meanwhile.
C17_GoodTokenNeverRejected ==
  \A q \in Workers :
    ( /\ Done(q) /\ req[q].out.called
      /\ "kid" \in DOMAIN req[q].token
      /\ req[q].token.alg = "RS256"
      /\ req[q].token.kid \in DOMAIN KeyMap(provider)
      /\ ~obs[q].rotated
      /\ ~RefreshFailed(q)
      /\ Decoded(q) => OtherwiseValid(q) )
    => Valid(q)

\* C16: every verify_token call comes back (returns or raises), also when the
\* provider never answers the GET of the certificate endpoint.
C16_VerifyTokenComesBack ==
  \A r \in 1..NumReq : At(r, "L137") ~> At(r, "done")
====
